---------------------------- MODULE Spec2Model ----------------------------
(***************************************************************************)
(* A model of the pump.fun copy-trading monitor: the instruction processor *)
(* PumpfunInstructionProcessor::process (src/src/main.rs), the instruction *)
(* builders (src/src/instructions/buy_ix.rs) and the quote functions       *)
(* (src/src/utils/swap_quote.rs).                                          *)
(*                                                                         *)
(* Conventions.  An Option<T> is a sequence of length at most one: <<>> is *)
(* None and <<x>> is Some(x).  A Vec<u8> is a sequence of numbers 0..255.  *)
(* A Rust string that the code parses is a sequence of one-character       *)
(* strings.  Rust indexes from 0, TLA+ sequences from 1: Get(s, i) is      *)
(* s.get(i) of the source.                                                 *)
(***************************************************************************)
EXTENDS Integers, Sequences, FiniteSets, TLC

\* ------------------------------------------------------------------ bounds

\* At most this many inner instructions in the scanned inner-instruction group.
MaxInner == 2

\* At most this many inner-instruction groups in one observed transaction.
MaxGroups == 2

\* ----------------------------------------------------------------- helpers

None == <<>>

Some(x) == <<x>>

IsSome(o) == Len(o) > 0

\* slice.get(i), i counted from 0.
Get(s, i) == IF i >= 0 /\ i < Len(s) THEN Some(s[i + 1]) ELSE None

\* slice.first()
First(s) == IF Len(s) > 0 THEN Some(s[1]) ELSE None

\* The sequences over S of length at most n.
SeqUpTo(S, n) == UNION {[1..k -> S] : k \in 0..n}

\* slice.starts_with(prefix)
StartsWith(data, prefix) ==
    /\ Len(data) >= Len(prefix)
    /\ SubSeq(data, 1, Len(prefix)) = prefix

\* u64::to_le_bytes of a value below 2^31: 8 bytes, least significant first.
RECURSIVE LeBytes(_, _)
LeBytes(v, n) == IF n = 0 THEN <<>> ELSE <<v % 256>> \o LeBytes(v \div 256, n - 1)

\* to_le_bytes with the most significant byte first (to_be_bytes).
to_be_bytes(v) == [i \in 1..8 |-> LeBytes(v, 8)[9 - i]]

to_le_bytes(v) == LeBytes(v, 8)

\* u64::from_le_bytes, read from the most significant byte down.
RECURSIVE FromLeBytes(_)
FromLeBytes(b) ==
    IF Len(b) = 0 THEN 0 ELSE b[1] + 256 * FromLeBytes(SubSeq(b, 2, Len(b)))


\* ------------------------------------------------------------- f64 and u64

\* What `x as u64` saturates to for x >= 2^64 (and for +inf).  The model's
\* integers are narrower than 64 bits: this stands for u64::MAX, and every
\* ordinary amount of the model is far below it.
U64_MAX == 2147483647

\* The e with 2^e <= x < 2^(e+1), for x >= 1.
RECURSIVE FloorLog2(_)
FloorLog2(x) == IF x < 2 THEN 0 ELSE 1 + FloorLog2(x \div 2)

\* The least g with v * 2^g >= d, for 0 < v.
RECURSIVE ShiftsToReach(_, _)
ShiftsToReach(v, d) == IF v >= d THEN 0 ELSE 1 + ShiftsToReach(2 * v, d)

\* (v * 2^n) mod d, by n doublings.
RECURSIVE ShiftMod(_, _, _)
ShiftMod(v, n, d) == IF n = 0 THEN v % d ELSE (2 * ShiftMod(v, n - 1, d)) % d

\* `(v as f64 / d as f64 * m as f64) as u64` for integers v >= 0, m >= 0 and
\* any integer d, all small enough to be exact as f64: IEEE-754 binary64
\* division, then multiplication, each rounded to nearest-even, then the
\* saturating cast.  x/0 is +inf (NaN for 0/0), inf*0 is NaN, NaN and
\* negative values cast to 0 and +inf casts to u64::MAX.  For d > 0 the two
\* roundings can move the result only when the exact value k = v*m/d is an
\* integer that the division did not produce exactly: the quotient keeps 53
\* significant bits, and when it was rounded down by more than half the gap
\* below k the product lands just under k and the cast yields k - 1.
F64DivMulAsU64(v, d, m) ==
    IF d = 0 THEN (IF v = 0 \/ m = 0 THEN 0 ELSE U64_MAX)
    ELSE IF d < 0 \/ v = 0 \/ m = 0 THEN 0
    ELSE IF (v * m) % d # 0 \/ v % d = 0 THEN (v * m) \div d
    ELSE LET k     == (v * m) \div d
             f     == IF v >= d THEN FloorLog2(v \div d) ELSE 0 - ShiftsToReach(v, d)
             n     == 52 - f
             rem   == ShiftMod(v, n, d)
             odd   == ShiftMod(v, n, 2 * d) >= d
             down  == 2 * rem < d \/ (2 * rem = d /\ ~odd)
             e     == FloorLog2(k)
             c     == IF k = 2 ^ e THEN 4 ELSE 2
         IN  IF down /\ c * m * rem > d * 2 ^ (e - f) THEN k - 1 ELSE k

sol_token_quote(amount, virtual_sol_reserves, virtual_token_reserves, is_buy) ==
    IF is_buy
    THEN F64DivMulAsU64(virtual_token_reserves, amount + virtual_sol_reserves, amount)
    ELSE F64DivMulAsU64(virtual_token_reserves, amount + virtual_sol_reserves - 1,
                        amount + 1)

token_sol_quote(amount, virtual_sol_reserves, virtual_token_reserves, is_buy) ==
    IF is_buy
    THEN F64DivMulAsU64(amount, virtual_token_reserves - amount, virtual_sol_reserves)
    ELSE F64DivMulAsU64(amount, virtual_token_reserves + amount, virtual_sol_reserves)

\* ------------------------------------------------- identities and accounts

\* The controller's own wallet (the PUBKEY of the configuration).
PUBKEY == "me"

\* The wallet whose trades are observed (TARGET_WALLET).
TARGET_WALLET == "target"

PUMPFUN_PROGRAM_ID == "pump"

\* spl_associated_token_account::get_associated_token_address: the address
\* derived from a wallet and a mint, distinct for distinct pairs.
get_associated_token_address(wallet, mint) ==
    CASE wallet = "me" /\ mint = "mintA" -> "ata(me,mintA)"
      [] wallet = "target" /\ mint = "mintA" -> "ata(target,mintA)"
      [] OTHER -> "ata(other)"

\* The names of the accounts of a Buy, in the order the program indexes them.
BuyAccountOrder ==
    <<"global", "fee_recipient", "mint", "bonding_curve",
      "associated_bonding_curve", "associated_user", "user", "system_program",
      "token_program", "creator_vault", "event_authority", "program">>

\* The same for a Sell: creator_vault and token_program change places.
SellAccountOrder ==
    <<"global", "fee_recipient", "mint", "bonding_curve",
      "associated_bonding_curve", "associated_user", "user", "system_program",
      "creator_vault", "token_program", "event_authority", "program">>

\* The index of name in order.
PositionOf(name, order) == CHOOSE i \in 1..Len(order) : order[i] = name

\* ArrangeAccounts::arrange_accounts: the account list of the decoded
\* instruction as a bundle of named accounts, None when the list is shorter
\* than the bundle.
ArrangeAccounts(accounts, order) ==
    IF Len(accounts) < Len(order) THEN None
    ELSE Some([n \in {order[i] : i \in 1..Len(order)} |->
                  accounts[PositionOf(n, order)]])

Buy_arrange_accounts(accounts) == ArrangeAccounts(accounts, BuyAccountOrder)

Sell_arrange_accounts(accounts) == ArrangeAccounts(accounts, SellAccountOrder)

\* AccountMeta::new(pubkey, is_signer)
AccountMeta_new(pubkey, is_signer) ==
    [pubkey |-> pubkey, is_signer |-> is_signer, is_writable |-> TRUE]

\* AccountMeta::new_readonly(pubkey, is_signer)
AccountMeta_new_readonly(pubkey, is_signer) ==
    [pubkey |-> pubkey, is_signer |-> is_signer, is_writable |-> FALSE]

\* ----------------------------------------------------- instruction builders

\* create_associated_token_account_idempotent(funder, wallet, mint, token
\* program) of the associated-token-account library, as called by
\* get_create_idempotent_ata_ix with the bundle's user as funder and wallet.
get_create_idempotent_ata_ix(self) ==
    [kind       |-> "create_ata_idempotent",
     program_id |-> "ata_program",
     accounts   |-> <<AccountMeta_new(self.user, TRUE),
                      AccountMeta_new(
                          get_associated_token_address(self.user, self.mint), FALSE),
                      AccountMeta_new_readonly(self.user, FALSE),
                      AccountMeta_new_readonly(self.mint, FALSE),
                      AccountMeta_new_readonly("system_program_id", FALSE),
                      AccountMeta_new_readonly(self.token_program, FALSE)>>,
     data       |-> <<1>>]

BuyDiscriminator == <<102, 6, 61, 18, 1, 218, 235, 234>>

\* get_buy_ix with the creator vault pushed before the token program, the
\* order of the accounts of a Sell.
get_buy_ix_SellOrder(self, buy_exact_in_param) ==
    [kind       |-> "buy",
     program_id |-> self.program,
     accounts   |-> <<AccountMeta_new_readonly(self.global, FALSE),
                      AccountMeta_new(self.fee_recipient, FALSE),
                      AccountMeta_new(self.mint, FALSE),
                      AccountMeta_new(self.bonding_curve, FALSE),
                      AccountMeta_new(self.associated_bonding_curve, FALSE),
                      AccountMeta_new(self.associated_user, FALSE),
                      AccountMeta_new(self.user, TRUE),
                      AccountMeta_new_readonly(self.system_program, FALSE),
                      AccountMeta_new(self.creator_vault, FALSE),
                      AccountMeta_new_readonly(self.token_program, FALSE),
                      AccountMeta_new_readonly(self.event_authority, FALSE),
                      AccountMeta_new_readonly(self.program, FALSE)>>,
     data       |-> <<102, 6, 61, 18, 1, 218, 235, 234>>
                        \o to_le_bytes(buy_exact_in_param.amount)
                        \o to_le_bytes(buy_exact_in_param.max_sol_cost)]

get_buy_ix(self, buy_exact_in_param) ==
    [kind       |-> "buy",
     program_id |-> self.program,
     accounts   |-> <<AccountMeta_new_readonly(self.global, FALSE),
                      AccountMeta_new(self.fee_recipient, FALSE),
                      AccountMeta_new(self.mint, FALSE),
                      AccountMeta_new(self.bonding_curve, FALSE),
                      AccountMeta_new(self.associated_bonding_curve, FALSE),
                      AccountMeta_new(self.associated_user, FALSE),
                      AccountMeta_new(self.user, TRUE),
                      AccountMeta_new_readonly(self.system_program, FALSE),
                      AccountMeta_new_readonly(self.token_program, FALSE),
                      AccountMeta_new(self.creator_vault, FALSE),
                      AccountMeta_new_readonly(self.event_authority, FALSE),
                      AccountMeta_new_readonly(self.program, FALSE)>>,
     data       |-> BuyDiscriminator
                        \o to_le_bytes(buy_exact_in_param.amount)
                        \o to_le_bytes(buy_exact_in_param.max_sol_cost)]

SellDiscriminator == <<51, 230, 133, 164, 1, 127, 131, 173>>

\* The sell builder (instructions::sell_ix): the Buy pattern with the sell
\* discriminator, the fields amount and min_sol_output, and the Sell account
\* ordering.
get_sell_ix(self, sell_exact_in_param) ==
    [kind       |-> "sell",
     program_id |-> self.program,
     accounts   |-> <<AccountMeta_new_readonly(self.global, FALSE),
                      AccountMeta_new(self.fee_recipient, FALSE),
                      AccountMeta_new(self.mint, FALSE),
                      AccountMeta_new(self.bonding_curve, FALSE),
                      AccountMeta_new(self.associated_bonding_curve, FALSE),
                      AccountMeta_new(self.associated_user, FALSE),
                      AccountMeta_new(self.user, TRUE),
                      AccountMeta_new_readonly(self.system_program, FALSE),
                      AccountMeta_new(self.creator_vault, FALSE),
                      AccountMeta_new_readonly(self.token_program, FALSE),
                      AccountMeta_new_readonly(self.event_authority, FALSE),
                      AccountMeta_new_readonly(self.program, FALSE)>>,
     data       |-> SellDiscriminator
                        \o to_le_bytes(sell_exact_in_param.amount)
                        \o to_le_bytes(sell_exact_in_param.min_sol_output)]

\* The close-account builder (instructions::sell_ix): closes the bundle's
\* associated user account, owner and destination the bundle's user.
get_close_ata_ix(self) ==
    [kind       |-> "close_account",
     program_id |-> self.token_program,
     accounts   |-> <<AccountMeta_new(self.associated_user, FALSE),
                      AccountMeta_new(self.user, FALSE),
                      AccountMeta_new_readonly(self.user, TRUE)>>,
     data       |-> <<9>>]

\* ------------------------------------------------------- the trade event

\* The first 8 bytes of the payload of an emitted trade event
\* (TradeEvent::DISCRIMINATOR, the EVENT_DISCRIMINATOR of buy_ix.rs).
EVENT_DISCRIMINATOR == <<228, 69, 165, 46, 81, 203, 154, 29>>

\* The 8 bytes that follow it in an emitted event; the code skips them unread.
WrapperHeader == <<189, 219, 127, 211, 78, 230, 97, 238>>

\* The borsh layout of a trade event, abridged to the fields process() reads:
\* is_buy (one byte, 0 or 1), virtual_sol_reserves and virtual_token_reserves
\* (u64, little-endian).
EncodeTradeEvent(ev) ==
    <<IF ev.is_buy THEN 1 ELSE 0>>
        \o to_le_bytes(ev.virtual_sol_reserves)
        \o to_le_bytes(ev.virtual_token_reserves)

TradeEventSize == 1 + 8 + 8

\* TradeEvent::try_from_slice: Some(event) when the slice is exactly one
\* encoded event, None (an Err) when it is too short, too long or holds a
\* byte that is no bool.
TradeEvent_try_from_slice(bytes) ==
    IF Len(bytes) # TradeEventSize \/ bytes[1] \notin {0, 1} THEN None
    ELSE Some([is_buy                 |-> bytes[1] = 1,
               virtual_sol_reserves   |-> FromLeBytes(SubSeq(bytes, 2, 9)),
               virtual_token_reserves |-> FromLeBytes(SubSeq(bytes, 10, 17))])

\* `TradeEvent::try_from_slice(&data[16..]).expect(..)`: the slice panics
\* when data holds fewer than 16 bytes and expect panics on an Err; None
\* stands for the panic.
DecodeTradeEvent(data) ==
    IF Len(data) < 16 THEN None
    ELSE TradeEvent_try_from_slice(SubSeq(data, 17, Len(data)))

\* ------------------------------------------------------------ str::parse

DigitChars == <<"0", "1", "2", "3", "4", "5", "6", "7", "8", "9">>

IsDigit(c) == \E i \in 1..10 : DigitChars[i] = c

DigitValue(c) == (CHOOSE i \in 1..10 : DigitChars[i] = c) - 1

\* The decimal digits of u64::MAX.
U64MaxDigits ==
    <<"1", "8", "4", "4", "6", "7", "4", "4", "0", "7",
      "3", "7", "0", "9", "5", "5", "1", "6", "1", "5">>

RECURSIVE StripZeros(_)
StripZeros(ds) == IF Len(ds) > 1 /\ ds[1] = "0" THEN StripZeros(Tail(ds)) ELSE ds

\* Whether the digit string a is a greater number than the digit string b of
\* the same length.
RECURSIVE DigitsGreater(_, _)
DigitsGreater(a, b) ==
    IF Len(a) = 0 THEN FALSE
    ELSE IF a[1] # b[1] THEN DigitValue(a[1]) > DigitValue(b[1])
    ELSE DigitsGreater(Tail(a), Tail(b))

\* Whether the number written by the digits ds exceeds u64::MAX.
OverflowsU64(ds) ==
    LET n == StripZeros(ds)
    IN  \/ Len(n) > Len(U64MaxDigits)
        \/ Len(n) = Len(U64MaxDigits) /\ DigitsGreater(n, U64MaxDigits)

RECURSIVE DigitsValue(_, _)
DigitsValue(ds, acc) ==
    IF Len(ds) = 0 THEN acc ELSE DigitsValue(Tail(ds), 10 * acc + DigitValue(ds[1]))

\* parse_u64 with an unparsable string read as 0 (unwrap_or_default).
parse_u64_OrZero(s) ==
    IF Len(s) > 0 /\ \A i \in 1..Len(s) : IsDigit(s[i]) /\ ~OverflowsU64(s)
    THEN Some(DigitsValue(s, 0)) ELSE Some(0)

\* str::parse::<u64>: Some(value), or None for an Err.  The empty string, a
\* lone sign, any character that is no decimal digit (a minus sign included:
\* the type is unsigned) and a value above u64::MAX are errors; one leading
\* plus sign is accepted.
parse_u64(s) ==
    IF Len(s) = 0 THEN None
    ELSE IF Len(s) = 1 /\ s[1] \in {"+", "-"} THEN None
    ELSE LET digits == IF s[1] = "+" THEN Tail(s) ELSE s
         IN  IF \E i \in 1..Len(digits) : ~IsDigit(digits[i]) THEN None
             ELSE IF OverflowsU64(digits) THEN None
             ELSE Some(DigitsValue(digits, 0))

\* ----------------------------------------------------------- configuration

\* BUY_SOL_AMOUNT of the configuration, in lamports.
BUY_SOL_AMOUNT == 10

\* SLIPPAGE of the configuration (0.5), in percent.
SLIPPAGE_PERCENT == 50

\* `(BUY_SOL_AMOUNT as f64 * 1.011 * (1.0 + SLIPPAGE)) as u64` on the buy path
\* (sign 1) and with `1.0 - SLIPPAGE` on the sell path (sign -1).  For the
\* configured values the exact products, 15.165 and 5.055, are far from an
\* integer, so the f64 roundings do not reach the truncation.
lamports_with_slippage(sign) ==
    (BUY_SOL_AMOUNT * 1011 * (100 + sign * SLIPPAGE_PERCENT)) \div 100000

\* The relay names the dispatch matches on.
KnownServices == {"NOZOMI", "ZERO_SLOT", "JITO"}

\* The values CONFIRM_SERVICE is configured with in the model.
ServiceNames == KnownServices \cup {"FOO"}

\* The sets of relay clients that startup (init_nozomi, init_zslot,
\* init_jito) left initialised.
ClientSets == {KnownServices, {}, {"NOZOMI"}}

\* What the background refresher may have stored when get_slot reads it.
Blockhashes == {"hashA", "hashB"}

\* ------------------------------------------------------------------ inputs

\* The static account-key table of the observed transaction.  Counted from 0,
\* the event authority is key 10, the target program key 11.
static_account_keys ==
    <<"global_key", "fee_key", "mintA", "curve", "assoc_curve",
      "ata(target,mintA)", "target", "system_program_id", "token_program_id",
      "vault", "event_authority_key", "pump">>

\* The account list of an observed Buy (the key table in order) or Sell (with
\* creator vault and token program exchanged), cut to n accounts.
ObservedAccounts(kind, n) ==
    LET k == static_account_keys
        full == IF kind = "Sell"
                THEN SubSeq(k, 1, 8) \o <<k[10], k[9]>> \o SubSeq(k, 11, 12)
                ELSE k
    IN  SubSeq(full, 1, n)

\* The decoded instructions the pipeline hands to process(): a Buy or a Sell
\* with a full or a short account list, or an instruction of another kind,
\* as the first top-level instruction of its transaction (index 0), and a Buy
\* or a Sell as the second one (index 1).
Instructions ==
    {[kind |-> k, accounts |-> ObservedAccounts(k, n), index |-> 0] :
        k \in {"Buy", "Sell"}, n \in {11, 12}}
    \cup {[kind |-> "Create", accounts |-> ObservedAccounts("Create", 12), index |-> 0]}
    \cup {[kind |-> k, accounts |-> ObservedAccounts(k, 12), index |-> 1] :
            k \in {"Buy", "Sell"}}

ObservedEvent ==
    [is_buy |-> TRUE, virtual_sol_reserves |-> 30, virtual_token_reserves |-> 1073]

ValidPayload == EVENT_DISCRIMINATOR \o WrapperHeader \o EncodeTradeEvent(ObservedEvent)

\* A well-formed event behind another discriminator.
WrongDiscPayload == BuyDiscriminator \o WrapperHeader \o EncodeTradeEvent(ObservedEvent)

\* The discriminator and the header, then an event cut short.
TruncatedPayload ==
    EVENT_DISCRIMINATOR \o WrapperHeader \o SubSeq(EncodeTradeEvent(ObservedEvent), 1, 9)

\* The discriminator and 4 more bytes: 12 bytes in all.
ShortPayload == EVENT_DISCRIMINATOR \o SubSeq(WrapperHeader, 1, 4)

InnerIx(program_id_index, accounts, data) ==
    [program_id_index |-> program_id_index, accounts |-> accounts, data |-> data]

\* The inner instructions of the model: four emitted by the target program
\* with the event authority as first account (a valid event, another
\* discriminator, a truncated event, a 12-byte payload), and five that carry
\* the valid event but another program, another first account, no account, or
\* an index outside the key table.
InnerIxs ==
    {InnerIx(11, <<10>>, ValidPayload),
     InnerIx(11, <<10>>, WrongDiscPayload),
     InnerIx(11, <<10>>, TruncatedPayload),
     InnerIx(11, <<10>>, ShortPayload),
     InnerIx(7, <<10>>, ValidPayload),
     InnerIx(11, <<6, 10>>, ValidPayload),
     InnerIx(11, <<>>, ValidPayload),
     InnerIx(12, <<10>>, ValidPayload),
     InnerIx(11, <<12>>, ValidPayload)}

InnerGroup(index, instructions) == [index |-> index, instructions |-> instructions]

\* A later group of the transaction: it holds a valid event.
LaterGroup(index) == InnerGroup(index, <<InnerIx(11, <<10>>, ValidPayload)>>)

\* meta.inner_instructions: None, no group, or a first group of at most
\* MaxInner inner instructions followed by at most MaxGroups - 1 later groups.
InnerInstructionLists ==
    {None, Some(<<>>)}
    \cup {Some(<<InnerGroup(0, g)>> \o [i \in 1..k |-> LaterGroup(i)]) :
            g \in SeqUpTo(InnerIxs, MaxInner), k \in 0..(MaxGroups - 1)}

\* The amounts the balance query answers with, as decimal strings.
BalanceStrings ==
    {<<"0">>, <<"7">>, <<"0", "7">>, <<"+", "5">>, <<>>, <<"-", "1">>, <<"a", "b">>,
     <<"1", ".", "5">>,
     <<"1", "8", "4", "4", "6", "7", "4", "4", "0", "7",
       "3", "7", "0", "9", "5", "5", "1", "6", "1", "6">>}

\* The answers of get_token_account_balance_with_commitment.
BalanceResponses ==
    {[ok |-> FALSE, amount |-> <<>>]} \cup {[ok |-> TRUE, amount |-> s] : s \in BalanceStrings}

\* The answers of a relay's send_transaction.
SendResponses ==
    {[ok |-> TRUE, data |-> "signature"], [ok |-> FALSE, data |-> "relay timeout"]}

\* ------------------------------------------------------------------- state

VARIABLES
    CONFIRM_SERVICE,    \* the configured relay name
    clients,            \* the relay clients that are initialised
    pc,                 \* where process() stands; "idle" before, "returned" after
    ret,                \* how the last invocation ended: "Ok", "Err", "panic"
    instruction,        \* the decoded instruction being processed
    inner_instructions, \* meta.inner_instructions of its transaction
    arranged,           \* Option: the retargeted account bundle
    trade_event,        \* Option: the decoded trade event
    balance_response,   \* Option: what the balance query answered
    token_amount,       \* Option: the parsed token balance
    quoted,             \* Option: what the quote function returned
    raw_instructions,   \* the instructions built for dispatch
    relay,              \* Option: the relay client the dispatch selected
    ixs,                \* the instructions after tip injection
    recent_blockhash,   \* Option: what get_slot returned
    encoded_tx,         \* Option: the signed transaction
    send_response,      \* Option: what send_transaction answered
    results,            \* Option: the result the dispatch reports
    trace,              \* the calls this invocation made, in order
    single_call,        \* Option: a call of one function alone, with its result
    frames,             \* the locals of the invocations that run concurrently
    latest_blockhash    \* Option: the blockhash the refresher stored last

vars ==
    <<CONFIRM_SERVICE, clients, pc, ret, instruction, inner_instructions, arranged,
      trade_event, balance_response, token_amount, quoted, raw_instructions, relay,
      ixs, recent_blockhash, encoded_tx, send_response, results, trace,
      single_call, frames, latest_blockhash>>

\* What only the specifications of single calls and of concurrent
\* invocations use.
aside == <<single_call, frames, latest_blockhash>>

config == <<CONFIRM_SERVICE, clients>>

\* The locals of one invocation of process().
vars_of_process ==
    <<pc, ret, instruction, inner_instructions, arranged, trade_event, balance_response,
      token_amount, quoted, raw_instructions, relay, ixs, recent_blockhash, encoded_tx,
      send_response, results, trace>>

input == <<instruction, inner_instructions>>

sell_state == <<balance_response, token_amount>>

dispatch_state == <<relay, ixs, recent_blockhash, encoded_tx, send_response, results>>

\* A call of the trace: the function called and the relay client it was
\* called on ("" when it is no relay call).
Call(op) == [op |-> op, on |-> ""]

CallOn(op, on) == [op |-> op, on |-> on]

\* ------------------------------------------------------- event extraction

\* Retarget leaving the bundle as arranged from the observed instruction.
Retarget_Keep(bundle) == bundle

\* The bundle with user and associated_user overwritten by the controller's
\* wallet and its associated account for the bundle's mint.
Retarget(bundle) ==
    [bundle EXCEPT !.user = PUBKEY,
                   !.associated_user = get_associated_token_address(PUBKEY, bundle.mint)]

\* IsSwapCpi without the comparison of the first account with the event
\* authority.
IsSwapCpi_ProgramOnly(inner_ix, account_keys, event_authority) ==
    LET program_id    == Get(account_keys, inner_ix.program_id_index)
        first_index   == First(inner_ix.accounts)
        first_account == IF IsSome(first_index)
                         THEN Get(account_keys, first_index[1]) ELSE None
    IN  /\ IsSome(program_id)
        /\ IsSome(first_account)
        /\ program_id[1] = PUMPFUN_PROGRAM_ID

\* The closure of filter_map: whether inner_ix is kept.  An index that the
\* key table does not resolve, or an empty account list, leaves the closure
\* through `?` with None.
IsSwapCpi(inner_ix, account_keys, event_authority) ==
    LET program_id    == Get(account_keys, inner_ix.program_id_index)
        first_index   == First(inner_ix.accounts)
        first_account == IF IsSome(first_index)
                         THEN Get(account_keys, first_index[1]) ELSE None
    IN  /\ IsSome(program_id)
        /\ IsSome(first_account)
        /\ program_id[1] = PUMPFUN_PROGRAM_ID
        /\ first_account[1] = event_authority

\* The group whose inner instructions are scanned: `.as_ref().and_then(|ixs|
\* ixs.first())`.
ScannedGroup(inner) == IF IsSome(inner) THEN First(inner[1]) ELSE None

\* InnerIxsOf ending the scan at the first inner instruction whose indices the
\* key table does not resolve, or which references no accounts: the rest of
\* the group is not looked at.
InnerIxsOf_StopAtUnresolvable(inner, account_keys, event_authority) ==
    LET group == ScannedGroup(inner)
        Keep(inner_ix) == IsSwapCpi(inner_ix, account_keys, event_authority)
        Resolves(inner_ix) ==
            /\ IsSome(Get(account_keys, inner_ix.program_id_index))
            /\ IsSome(First(inner_ix.accounts))
            /\ IsSome(Get(account_keys, inner_ix.accounts[1]))
        Stops(ins) == {i \in 1..Len(ins) : ~Resolves(ins[i])}
        Before(ins) == IF Stops(ins) = {} THEN ins
                       ELSE SubSeq(ins, 1, (CHOOSE i \in Stops(ins) :
                                               \A j \in Stops(ins) : i <= j) - 1)
    IN  IF IsSome(group) THEN SelectSeq(Before(group[1].instructions), Keep) ELSE <<>>

\* inner_ixs: the kept inner instructions of the scanned group, in order;
\* empty when there is no group.
InnerIxsOf(inner, account_keys, event_authority) ==
    LET group == ScannedGroup(inner)
        Keep(inner_ix) == IsSwapCpi(inner_ix, account_keys, event_authority)
    IN  IF IsSome(group) THEN SelectSeq(group[1].instructions, Keep) ELSE <<>>

\* SwapCpiIx searching for the first kept inner instruction that carries the
\* discriminator, instead of taking the first kept one.
SwapCpiIx_FirstWithDiscriminator(inner_ixs) ==
    LET Carries(inner_ix) == StartsWith(inner_ix.data, <<228, 69, 165, 46, 81, 203, 154, 29>>)
    IN  IF SelectSeq(inner_ixs, Carries) # <<>>
        THEN First(SelectSeq(inner_ixs, Carries)) ELSE First(inner_ixs)

\* swap_cpi_ix: `inner_ixs.first()`.
SwapCpiIx(inner_ixs) == First(inner_ixs)

\* What the scan of one arm found.  found is "no_accounts" (arrange_accounts
\* returned None), "no_match" (inner_ixs is empty), "other_discriminator",
\* "panic" (the slice or the expect panicked) or "event".
Extraction(found, bundle, event) ==
    [found |-> found, arranged |-> bundle, trade_event |-> event]

\* The part both arms share: arrange and retarget the accounts, filter the
\* scanned group, take the first kept inner instruction, check its
\* discriminator and decode the event behind it.
Extract(arranged_accounts, inner) ==
    IF ~IsSome(arranged_accounts) THEN Extraction("no_accounts", None, None)
    ELSE
      LET bundle      == Retarget(arranged_accounts[1])
          inner_ixs   == InnerIxsOf(inner, static_account_keys, bundle.event_authority)
          swap_cpi_ix == SwapCpiIx(inner_ixs)
      IN  IF ~IsSome(swap_cpi_ix) THEN Extraction("no_match", Some(bundle), None)
          ELSE IF ~StartsWith(swap_cpi_ix[1].data, EVENT_DISCRIMINATOR)
          THEN Extraction("other_discriminator", Some(bundle), None)
          ELSE LET event == DecodeTradeEvent(swap_cpi_ix[1].data)
               IN  IF IsSome(event) THEN Extraction("event", Some(bundle), event)
                   ELSE Extraction("panic", Some(bundle), None)

\* ArmOf with the default arm running the Buy arm.
ArmOf_DefaultIsBuy(kind) == IF kind = "Sell" THEN "Sell" ELSE "Buy"

\* The arm of the match on instruction.data.
ArmOf(kind) ==
    CASE kind = "Buy" -> "Buy"
      [] kind = "Sell" -> "Sell"
      [] OTHER -> "ignore"

\* ------------------------------------------------------------ the relays

\* PRIORITY_FEE of the configuration: compute units, priority fee per compute
\* unit, tip.
PRIORITY_FEE == <<200000, 1000, 5>>

\* The Tips the dispatch hands to add_tip_ix.
Tips(pure_ix) ==
    [cu                         |-> Some(PRIORITY_FEE[1]),
     priority_fee_micro_lamport |-> Some(PRIORITY_FEE[2]),
     payer                      |-> PUBKEY,
     pure_ix                    |-> pure_ix,
     tip_addr_idx               |-> 1,
     tip_sol_amount             |-> PRIORITY_FEE[3]]

\* add_tip_ix of a relay client: the compute-budget instructions, the
\* caller's instructions in the given order, the tip paid to the relay.
add_tip_ix(client, tips) ==
    <<[kind |-> "set_compute_unit_limit", program_id |-> "compute_budget",
       accounts |-> <<>>, data |-> tips.cu],
      [kind |-> "set_compute_unit_price", program_id |-> "compute_budget",
       accounts |-> <<>>, data |-> tips.priority_fee_micro_lamport]>>
    \o tips.pure_ix
    \o <<[kind |-> "tip", program_id |-> "system_program_id",
          accounts |-> <<AccountMeta_new(tips.payer, TRUE),
                         AccountMeta_new(client, FALSE)>>,
          data |-> <<tips.tip_addr_idx, tips.tip_sol_amount>>]>>

\* build_and_sign(ixs, recent_blockhash, None): the transaction signed by the
\* controller's wallet.
build_and_sign(instructions, blockhash) ==
    [instructions |-> instructions, recent_blockhash |-> blockhash, signer |-> PUBKEY]

\* MatchService with the default arm falling back to a relay.
MatchService_FallsBack(name) ==
    IF name \in {"NOZOMI", "ZERO_SLOT", "JITO"} THEN name ELSE "JITO"

\* The arm of the match on CONFIRM_SERVICE: the relay of that name, or
\* "unknown" for the default arm.
MatchService(name) == IF name \in KnownServices THEN name ELSE "unknown"

\* StepAfter with the blockhash read before the tip is injected.
StepAfter_BlockhashFirst(step) ==
    CASE step = "select" -> "get_slot"
      [] step = "get_slot" -> "add_tip_ix"
      [] step = "add_tip_ix" -> "build_and_sign"
      [] step = "build_and_sign" -> "send_transaction"
      [] step = "send_transaction" -> "await_send"

\* The step of a dispatch that follows step.
StepAfter(step) ==
    CASE step = "select" -> "add_tip_ix"
      [] step = "add_tip_ix" -> "get_slot"
      [] step = "get_slot" -> "build_and_sign"
      [] step = "build_and_sign" -> "send_transaction"
      [] step = "send_transaction" -> "await_send"

\* The json! value a send_transaction answer becomes.
SendResult(response) ==
    IF response.ok THEN [result |-> response.data, message |-> None]
    ELSE [result |-> "error", message |-> Some(response.data)]

\* AfterSend submitting again when the relay answered with an error.
AfterSend_Retry(response) ==
    IF response.ok THEN [pc |-> "returned", ret |-> "Ok"]
    ELSE [pc |-> "send_transaction", ret |-> "running"]

\* AfterSend propagating the relay's error as the error of process().
AfterSend_Propagate(response) ==
    [pc |-> "returned", ret |-> IF response.ok THEN "Ok" ELSE "Err"]

\* How process() goes on once send_transaction has answered: it prints the
\* result and returns Ok, whatever the answer.
AfterSend(response) == [pc |-> "returned", ret |-> "Ok"]

\* ----------------------------------------------------------------- actions

NoInstruction == [kind |-> "none", accounts |-> <<>>, index |-> 0]

\* No invocation of process() has begun: its locals hold nothing.
NoInvocation ==
    /\ pc = "idle"
    /\ ret = "none"
    /\ instruction = NoInstruction
    /\ inner_instructions = None
    /\ arranged = None
    /\ trade_event = None
    /\ balance_response = None
    /\ token_amount = None
    /\ quoted = None
    /\ raw_instructions = <<>>
    /\ relay = None
    /\ ixs = <<>>
    /\ recent_blockhash = None
    /\ encoded_tx = None
    /\ send_response = None
    /\ results = None
    /\ trace = <<>>

Init ==
    /\ CONFIRM_SERVICE \in ServiceNames
    /\ clients \in ClientSets
    /\ NoInvocation
    /\ single_call = None
    /\ frames = <<>>
    /\ latest_blockhash = None

\* process() returns Ok(()).
ReturnOk == pc' = "returned" /\ ret' = "Ok"

\* process() panics: the pipeline's task unwinds and the process ends.
Panic == pc' = "crashed" /\ ret' = "panic"

\* The pipeline hands a decoded instruction and the metadata of its
\* transaction to process().
Receive ==
    /\ pc = "idle"
    /\ \E ins \in Instructions, inner \in InnerInstructionLists :
          /\ instruction' = ins
          /\ inner_instructions' = inner
    /\ pc' = "process"
    /\ ret' = "running"
    /\ UNCHANGED <<config, aside, arranged, trade_event, sell_state, quoted,
                   raw_instructions, dispatch_state, trace>>

\* process() has returned: its locals are dropped and the pipeline waits for
\* the next decoded instruction.
PipelineContinues ==
    /\ pc = "returned"
    /\ pc' = "idle"
    /\ ret' = "none"
    /\ instruction' = NoInstruction
    /\ inner_instructions' = None
    /\ arranged' = None
    /\ trade_event' = None
    /\ balance_response' = None
    /\ token_amount' = None
    /\ quoted' = None
    /\ raw_instructions' = <<>>
    /\ relay' = None
    /\ ixs' = <<>>
    /\ recent_blockhash' = None
    /\ encoded_tx' = None
    /\ send_response' = None
    /\ results' = None
    /\ trace' = <<>>
    /\ UNCHANGED <<config, aside>>

\* BuyArmInstructions with the two instructions in the other order.
BuyArmInstructions_Swapped(create_ata_ix, buy_ix) == <<buy_ix, create_ata_ix>>

\* The value of the Buy arm: `vec![create_ata_ix, buy_ix]`.
BuyArmInstructions(create_ata_ix, buy_ix) == <<create_ata_ix, buy_ix>>

\* The value of the Sell arm: `vec![sell_ix, close_ata_ix]`.
SellArmInstructions(sell_ix, close_ata_ix) == <<sell_ix, close_ata_ix>>

\* The Buy arm, whole: it awaits nothing.
ProcessBuy ==
    /\ pc = "process"
    /\ ArmOf(instruction.kind) = "Buy"
    /\ LET x == Extract(Buy_arrange_accounts(instruction.accounts), inner_instructions)
       IN  /\ arranged' = x.arranged
           /\ trade_event' = x.trade_event
           /\ CASE x.found \in {"no_accounts", "other_discriminator"} ->
                     /\ raw_instructions' = <<>>
                     /\ pc' = "dispatch"
                     /\ UNCHANGED <<ret, quoted, trace>>
                [] x.found = "no_match" ->
                     /\ ReturnOk
                     /\ UNCHANGED <<quoted, raw_instructions, trace>>
                [] x.found = "panic" ->
                     /\ Panic
                     /\ UNCHANGED <<quoted, raw_instructions, trace>>
                [] x.found = "event" ->
                     LET required_token_amount ==
                             sol_token_quote(BUY_SOL_AMOUNT,
                                             x.trade_event[1].virtual_sol_reserves,
                                             x.trade_event[1].virtual_token_reserves,
                                             TRUE)
                         create_ata_ix == get_create_idempotent_ata_ix(x.arranged[1])
                         buy_ix == get_buy_ix(x.arranged[1],
                                       [amount       |-> required_token_amount,
                                        max_sol_cost |-> lamports_with_slippage(1)])
                     IN  /\ quoted' = Some(required_token_amount)
                         /\ raw_instructions' = BuyArmInstructions(create_ata_ix, buy_ix)
                         /\ trace' = <<Call("sol_token_quote"),
                                       Call("get_create_idempotent_ata_ix"),
                                       Call("get_buy_ix")>>
                         /\ pc' = "dispatch"
                         /\ UNCHANGED ret
    /\ UNCHANGED <<config, aside, input, sell_state, dispatch_state>>

\* The Sell arm up to its await: the balance query for the retargeted
\* associated account is sent.
ProcessSell ==
    /\ pc = "process"
    /\ ArmOf(instruction.kind) = "Sell"
    /\ LET x == Extract(Sell_arrange_accounts(instruction.accounts), inner_instructions)
       IN  /\ arranged' = x.arranged
           /\ trade_event' = x.trade_event
           /\ CASE x.found \in {"no_accounts", "other_discriminator"} ->
                     /\ pc' = "dispatch"
                     /\ UNCHANGED <<ret, trace>>
                [] x.found = "no_match" ->
                     /\ ReturnOk
                     /\ UNCHANGED trace
                [] x.found = "panic" ->
                     /\ Panic
                     /\ UNCHANGED trace
                [] x.found = "event" ->
                     /\ trace' = <<CallOn("get_token_account_balance",
                                          x.arranged[1].associated_user)>>
                     /\ pc' = "await_balance"
                     /\ UNCHANGED ret
    /\ UNCHANGED <<config, aside, input, sell_state, quoted, raw_instructions,
                   dispatch_state>>

\* The balance query answers and the Sell arm runs to its end.
BalanceReturns(response) ==
    /\ pc = "await_balance"
    /\ balance_response' = Some(response)
    /\ LET parsed == IF response.ok THEN parse_u64(response.amount) ELSE None
       IN  IF ~response.ok
           THEN /\ ReturnOk
                /\ UNCHANGED <<token_amount, quoted, raw_instructions, trace>>
           ELSE IF ~IsSome(parsed)
           THEN /\ ReturnOk
                /\ trace' = Append(trace, Call("parse"))
                /\ UNCHANGED <<token_amount, quoted, raw_instructions>>
           ELSE LET min_sol_amount_out ==
                        token_sol_quote(parsed[1],
                                        trade_event[1].virtual_sol_reserves,
                                        trade_event[1].virtual_token_reserves,
                                        FALSE)
                    sell_ix == get_sell_ix(arranged[1],
                                   [amount         |-> parsed[1],
                                    min_sol_output |-> lamports_with_slippage(-1)])
                    close_ata_ix == get_close_ata_ix(arranged[1])
                IN  /\ token_amount' = parsed
                    /\ quoted' = Some(min_sol_amount_out)
                    /\ raw_instructions' = SellArmInstructions(sell_ix, close_ata_ix)
                    /\ trace' = trace \o <<Call("parse"), Call("token_sol_quote"),
                                           Call("get_sell_ix"),
                                           Call("get_close_ata_ix")>>
                    /\ pc' = "dispatch"
                    /\ UNCHANGED ret
    /\ UNCHANGED <<config, aside, input, arranged, trade_event, dispatch_state>>

\* The default arm of the match on instruction.data.
ProcessOther ==
    /\ pc = "process"
    /\ ArmOf(instruction.kind) = "ignore"
    /\ pc' = "dispatch"
    /\ UNCHANGED <<config, aside, input, ret, arranged, trade_event, sell_state, quoted,
                   raw_instructions, dispatch_state, trace>>

\* `if !raw_instructions.is_empty()` with nothing built: process() returns.
NoDispatch ==
    /\ pc = "dispatch"
    /\ raw_instructions = <<>>
    /\ ReturnOk
    /\ UNCHANGED <<config, aside, input, arranged, trade_event, sell_state, quoted,
                   raw_instructions, dispatch_state, trace>>

\* The match on CONFIRM_SERVICE.  The default arm makes the failure result,
\* which is printed, and process() returns; a known name takes its client
\* out of the once-cell, and expect panics when it was never set.
SelectRelay ==
    /\ pc = "dispatch"
    /\ raw_instructions # <<>>
    /\ LET arm == MatchService(CONFIRM_SERVICE)
       IN  IF arm = "unknown"
           THEN /\ results' = Some([result  |-> "error",
                                    message |-> Some("unknown confirmation service")])
                /\ trace' = Append(trace, Call("report"))
                /\ ReturnOk
                /\ UNCHANGED relay
           ELSE IF arm \notin clients
           THEN /\ Panic
                /\ UNCHANGED <<relay, results, trace>>
           ELSE /\ relay' = Some(arm)
                /\ trace' = Append(trace, CallOn("select", arm))
                /\ pc' = StepAfter("select")
                /\ UNCHANGED <<ret, results>>
    /\ UNCHANGED <<config, aside, input, arranged, trade_event, sell_state, quoted,
                   raw_instructions, ixs, recent_blockhash, encoded_tx, send_response>>

\* The selected relay injects its tip.
AddTipIx ==
    /\ pc = "add_tip_ix"
    /\ ixs' = add_tip_ix(relay[1], Tips(raw_instructions))
    /\ trace' = Append(trace, CallOn("add_tip_ix", relay[1]))
    /\ pc' = StepAfter("add_tip_ix")
    /\ UNCHANGED <<config, aside, input, ret, arranged, trade_event, sell_state, quoted,
                   raw_instructions, relay, recent_blockhash, encoded_tx,
                   send_response, results>>

\* get_slot reads the blockhash the background refresher stored last.
GetSlot(blockhash) ==
    /\ pc = "get_slot"
    /\ recent_blockhash' = Some(blockhash)
    /\ trace' = Append(trace, Call("get_slot"))
    /\ pc' = StepAfter("get_slot")
    /\ UNCHANGED <<config, aside, input, ret, arranged, trade_event, sell_state, quoted,
                   raw_instructions, relay, ixs, encoded_tx, send_response, results>>

BuildAndSign ==
    /\ pc = "build_and_sign"
    /\ encoded_tx' = Some(build_and_sign(ixs, recent_blockhash[1]))
    /\ trace' = Append(trace, Call("build_and_sign"))
    /\ pc' = StepAfter("build_and_sign")
    /\ UNCHANGED <<config, aside, input, ret, arranged, trade_event, sell_state, quoted,
                   raw_instructions, relay, ixs, recent_blockhash, send_response,
                   results>>

\* send_transaction is called on the selected relay and awaited.
SendTransaction ==
    /\ pc = "send_transaction"
    /\ trace' = Append(trace, CallOn("send_transaction", relay[1]))
    /\ pc' = StepAfter("send_transaction")
    /\ UNCHANGED <<config, aside, input, ret, arranged, trade_event, sell_state, quoted,
                   raw_instructions, dispatch_state>>

\* The relay answers; the result is printed and process() ends.
SendReturns(response) ==
    /\ pc = "await_send"
    /\ send_response' = Some(response)
    /\ results' = Some(SendResult(response))
    /\ trace' = Append(trace, Call("report"))
    /\ pc' = AfterSend(response).pc
    /\ ret' = AfterSend(response).ret
    /\ UNCHANGED <<config, aside, input, arranged, trade_event, sell_state, quoted,
                   raw_instructions, relay, ixs, recent_blockhash, encoded_tx>>

Next ==
    \/ Receive
    \/ ProcessBuy
    \/ ProcessSell
    \/ \E response \in BalanceResponses : BalanceReturns(response)
    \/ ProcessOther
    \/ NoDispatch
    \/ SelectRelay
    \/ AddTipIx
    \/ \E blockhash \in Blockhashes : GetSlot(blockhash)
    \/ BuildAndSign
    \/ SendTransaction
    \/ \E response \in SendResponses : SendReturns(response)
    \/ PipelineContinues

Spec == Init /\ [][Next]_vars

\* ------------------------------------------------------------ single calls

\* The largest amount and the largest reserve of the quotes called alone.
MaxAmount == 6

MaxReserve == 5

QuoteAmounts == 0..MaxAmount

\* The reserves of a pool that is not degenerate: both positive.
Reserves == 1..MaxReserve

\* The arguments of a quote.
QuoteArgs ==
    [amount : QuoteAmounts, virtual_sol_reserves : Reserves,
     virtual_token_reserves : Reserves, is_buy : BOOLEAN]

\* The arguments of a quote against a pool with an empty reserve: the u64
\* parameters admit 0.
EmptyReserveQuoteArgs ==
    [amount : QuoteAmounts, virtual_sol_reserves : 0..MaxReserve,
     virtual_token_reserves : 0..MaxReserve, is_buy : BOOLEAN] \ QuoteArgs

\* The amounts of a buy called alone: the values around the byte boundaries
\* that the model's integers hold.
BuyIxAmounts == {0, 1, 255, 256, 65535, 65536, 16777216, 2147483647}

\* The bundles of a buy called alone: the arranged accounts of an observed
\* Buy, the same retargeted, and a bundle of twelve accounts of other names.
BuyIxBundles ==
    {Buy_arrange_accounts(ObservedAccounts("Buy", 12))[1],
     Retarget(Buy_arrange_accounts(ObservedAccounts("Buy", 12))[1]),
     [n \in {BuyAccountOrder[i] : i \in 1..Len(BuyAccountOrder)} |-> n]}

\* A call of fn with args that has not returned; after is the amount a round
\* trip began with, when the call is the second half of one.
CallOf(fn, args, after) == [fn |-> fn, args |-> args, result |-> None, after |-> after]

SingleCalls ==
    {CallOf(fn, args, None) : fn \in {"sol_token_quote", "token_sol_quote"},
                              args \in QuoteArgs \cup EmptyReserveQuoteArgs}
    \cup {CallOf("get_buy_ix", [self |-> b, buy_exact_in_param |-> [amount |-> a, max_sol_cost |-> m]], None) :
            b \in BuyIxBundles, a \in BuyIxAmounts, m \in BuyIxAmounts}

\* The quote fn of the arguments args.
QuoteOf(fn, args) ==
    IF fn = "sol_token_quote"
    THEN sol_token_quote(args.amount, args.virtual_sol_reserves,
                         args.virtual_token_reserves, args.is_buy)
    ELSE token_sol_quote(args.amount, args.virtual_sol_reserves,
                         args.virtual_token_reserves, args.is_buy)

CallsInit ==
    /\ CONFIRM_SERVICE = "NOZOMI"
    /\ clients = KnownServices
    /\ NoInvocation
    /\ single_call \in {Some(c) : c \in SingleCalls}
    /\ frames = <<>>
    /\ latest_blockhash = None

\* The call of a quote returns.
CallQuote ==
    /\ IsSome(single_call)
    /\ single_call[1].fn \in {"sol_token_quote", "token_sol_quote"}
    /\ single_call[1].result = None
    /\ single_call' = Some([single_call[1] EXCEPT
                                !.result = Some(QuoteOf(single_call[1].fn,
                                                        single_call[1].args))])
    /\ UNCHANGED <<config, vars_of_process, frames, latest_blockhash>>

\* The tokens a buy quote returned are quoted back in the sell direction
\* against the same reserves.
CallReverseSell ==
    /\ IsSome(single_call)
    /\ single_call[1].fn = "sol_token_quote"
    /\ single_call[1].args.is_buy
    /\ IsSome(single_call[1].result)
    /\ single_call' = Some(CallOf("token_sol_quote",
                                  [single_call[1].args EXCEPT
                                       !.amount = single_call[1].result[1],
                                       !.is_buy = FALSE],
                                  Some(single_call[1].args.amount)))
    /\ UNCHANGED <<config, vars_of_process, frames, latest_blockhash>>

\* The call of get_buy_ix returns.
CallGetBuyIx ==
    /\ IsSome(single_call)
    /\ single_call[1].fn = "get_buy_ix"
    /\ single_call[1].result = None
    /\ single_call' = Some([single_call[1] EXCEPT
                                !.result = Some(get_buy_ix(
                                    single_call[1].args.self,
                                    single_call[1].args.buy_exact_in_param))])
    /\ UNCHANGED <<config, vars_of_process, frames, latest_blockhash>>

CallsNext == CallQuote \/ CallReverseSell \/ CallGetBuyIx

SpecCalls == CallsInit /\ [][CallsNext]_vars

\* -------------------------------------------------- concurrent invocations

\* The invocations of process() that run concurrently, each on its own
\* decoded instruction.
Invocations == {1, 2}

\* The locals of an invocation that has just been handed its input.
NewFrame(ins, inner) ==
    [pc |-> "process", ret |-> "running", instruction |-> ins,
     inner_instructions |-> inner, arranged |-> None, trade_event |-> None,
     balance_response |-> None, raw_instructions |-> <<>>, relay |-> None,
     ixs |-> <<>>, recent_blockhash |-> None, encoded_tx |-> None,
     send_response |-> None, results |-> None]

\* The match on instruction.data up to its first await (the Buy arm and the
\* default arm whole, the Sell arm up to the balance query), on the locals f.
ArmStep(f) ==
    IF ArmOf(f.instruction.kind) = "ignore"
    THEN [f EXCEPT !.raw_instructions = <<>>, !.pc = "dispatch"]
    ELSE
      LET buys == ArmOf(f.instruction.kind) = "Buy"
          x == Extract(IF buys THEN Buy_arrange_accounts(f.instruction.accounts)
                       ELSE Sell_arrange_accounts(f.instruction.accounts),
                       f.inner_instructions)
          g == [f EXCEPT !.arranged = x.arranged, !.trade_event = x.trade_event]
      IN  CASE x.found \in {"no_accounts", "other_discriminator"} ->
                 [g EXCEPT !.raw_instructions = <<>>, !.pc = "dispatch"]
            [] x.found = "no_match" -> [g EXCEPT !.pc = "returned", !.ret = "Ok"]
            [] x.found = "panic" -> [g EXCEPT !.pc = "crashed", !.ret = "panic"]
            [] x.found = "event" /\ ~buys -> [g EXCEPT !.pc = "await_balance"]
            [] x.found = "event" /\ buys ->
                 [g EXCEPT !.pc = "dispatch",
                           !.raw_instructions =
                               BuyArmInstructions(
                                   get_create_idempotent_ata_ix(x.arranged[1]),
                                   get_buy_ix(x.arranged[1],
                                       [amount |-> sol_token_quote(BUY_SOL_AMOUNT,
                                                       x.trade_event[1].virtual_sol_reserves,
                                                       x.trade_event[1].virtual_token_reserves,
                                                       TRUE),
                                        max_sol_cost |-> lamports_with_slippage(1)]))]

\* The Sell arm from the answer of the balance query to its end.
BalanceStep(f, response) ==
    LET g == [f EXCEPT !.balance_response = Some(response)]
        parsed == IF response.ok THEN parse_u64(response.amount) ELSE None
    IN  IF ~IsSome(parsed) THEN [g EXCEPT !.pc = "returned", !.ret = "Ok"]
        ELSE [g EXCEPT !.pc = "dispatch",
                       !.raw_instructions =
                           SellArmInstructions(
                               get_sell_ix(f.arranged[1],
                                   [amount         |-> parsed[1],
                                    min_sol_output |-> lamports_with_slippage(-1)]),
                               get_close_ata_ix(f.arranged[1]))]

\* The test of the instruction list and the match on the relay name, given
\* the configuration read.
SelectStep(f, service, initialised) ==
    IF f.raw_instructions = <<>> THEN [f EXCEPT !.pc = "returned", !.ret = "Ok"]
    ELSE IF MatchService(service) = "unknown"
    THEN [f EXCEPT !.pc = "returned", !.ret = "Ok",
                   !.results = Some([result  |-> "error",
                                     message |-> Some("unknown confirmation service")])]
    ELSE IF MatchService(service) \notin initialised
    THEN [f EXCEPT !.pc = "crashed", !.ret = "panic"]
    ELSE [f EXCEPT !.relay = Some(MatchService(service)), !.pc = StepAfter("select")]

\* The steps of a dispatch that await nothing and read no shared cell.
DispatchStep(f) ==
    CASE f.pc = "add_tip_ix" ->
           [f EXCEPT !.ixs = add_tip_ix(f.relay[1], Tips(f.raw_instructions)),
                     !.pc = StepAfter("add_tip_ix")]
      [] f.pc = "build_and_sign" ->
           [f EXCEPT !.encoded_tx = Some(build_and_sign(f.ixs, f.recent_blockhash[1])),
                     !.pc = StepAfter("build_and_sign")]
      [] f.pc = "send_transaction" -> [f EXCEPT !.pc = StepAfter("send_transaction")]

\* get_slot, given the blockhash read.
SlotStep(f, blockhash) ==
    [f EXCEPT !.recent_blockhash = Some(blockhash), !.pc = StepAfter("get_slot")]

\* The end of a dispatch, given the answer of send_transaction.
SendStep(f, response) ==
    [f EXCEPT !.send_response = Some(response),
              !.results = Some(SendResult(response)),
              !.pc = AfterSend(response).pc,
              !.ret = AfterSend(response).ret]

\* Owner with the instruction list kept in the processor, which every
\* invocation is called on, instead of in a local of the invocation.
Owner_Processor(self) == 1

\* Where the instruction list of invocation self lives: `let raw_instructions`
\* binds a local of the invocation; the processor is a unit struct and holds
\* nothing.
Owner(self) == self

\* The locals invocation self works on.
View(self) ==
    [frames[self] EXCEPT !.raw_instructions = frames[Owner(self)].raw_instructions]

\* The frames after invocation self has made a step that leaves its locals
\* as g.
Stored(self, g) ==
    [i \in Invocations |->
        IF i = Owner(self) /\ i = self THEN g
        ELSE IF i = self
        THEN [g EXCEPT !.raw_instructions = frames[self].raw_instructions]
        ELSE IF i = Owner(self)
        THEN [frames[i] EXCEPT !.raw_instructions = g.raw_instructions]
        ELSE frames[i]]

\* The inputs of the concurrent invocations: a Buy, a Sell and an instruction
\* of another kind, each in a transaction with one well-formed trade event.
ConcurrentInstructions ==
    {ins \in Instructions : Len(ins.accounts) = 12 /\ ins.index = 0}

ConcurrentInner == Some(<<InnerGroup(0, <<InnerIx(11, <<10>>, ValidPayload)>>)>>)

\* The answers of the balance query to the concurrent invocations: an error,
\* an amount, a string that is no amount.
ConcurrentBalanceResponses ==
    {r \in BalanceResponses : r.amount \in {<<>>, <<"7">>, <<"a", "b">>}}

ConcurrentInit ==
    /\ CONFIRM_SERVICE \in {"NOZOMI", "FOO"}
    /\ clients \in {KnownServices, {}}
    /\ NoInvocation
    /\ single_call = None
    /\ frames \in [Invocations -> {NewFrame(ins, ConcurrentInner) :
                                      ins \in ConcurrentInstructions}]
    /\ latest_blockhash \in {Some(b) : b \in Blockhashes}

\* The background refresher stores another blockhash.
RefreshBlockhash ==
    /\ \E b \in Blockhashes :
          /\ Some(b) # latest_blockhash
          /\ latest_blockhash' = Some(b)
    /\ UNCHANGED <<config, vars_of_process, single_call, frames>>

\* Invocation self runs its arm up to the first await.
RunArm(self) ==
    /\ frames[self].pc = "process"
    /\ frames' = Stored(self, ArmStep(View(self)))
    /\ UNCHANGED <<config, vars_of_process, single_call, latest_blockhash>>

\* The balance query of invocation self answers.
BalanceAnswers(self, response) ==
    /\ frames[self].pc = "await_balance"
    /\ frames' = Stored(self, BalanceStep(View(self), response))
    /\ UNCHANGED <<config, vars_of_process, single_call, latest_blockhash>>

\* Invocation self reads the configured relay name and takes the client.
Select(self) ==
    /\ frames[self].pc = "dispatch"
    /\ frames' = Stored(self, SelectStep(View(self), CONFIRM_SERVICE, clients))
    /\ UNCHANGED <<config, vars_of_process, single_call, latest_blockhash>>

\* Invocation self injects the tip, signs, or sends.
Dispatch(self) ==
    /\ frames[self].pc \in {"add_tip_ix", "build_and_sign", "send_transaction"}
    /\ frames' = Stored(self, DispatchStep(View(self)))
    /\ UNCHANGED <<config, vars_of_process, single_call, latest_blockhash>>

\* Invocation self reads the blockhash the refresher stored last.
ReadBlockhash(self) ==
    /\ frames[self].pc = "get_slot"
    /\ frames' = Stored(self, SlotStep(View(self), latest_blockhash[1]))
    /\ UNCHANGED <<config, vars_of_process, single_call, latest_blockhash>>

\* The relay answers the submission of invocation self.
SendAnswers(self, response) ==
    /\ frames[self].pc = "await_send"
    /\ frames' = Stored(self, SendStep(View(self), response))
    /\ UNCHANGED <<config, vars_of_process, single_call, latest_blockhash>>

ConcurrentNext ==
    \/ RefreshBlockhash
    \/ \E self \in Invocations : RunArm(self)
    \/ \E self \in Invocations, response \in ConcurrentBalanceResponses :
          BalanceAnswers(self, response)
    \/ \E self \in Invocations : Select(self)
    \/ \E self \in Invocations : Dispatch(self)
    \/ \E self \in Invocations : ReadBlockhash(self)
    \/ \E self \in Invocations, response \in SendResponses : SendAnswers(self, response)

SpecConcurrent == ConcurrentInit /\ [][ConcurrentNext]_vars

\* An invocation has ended.
Ended(f) == f.pc \in {"returned", "crashed"}

\* The locals with which an invocation that runs alone ends, given its input,
\* the configuration and the answers it gets from outside: the balance, the
\* blockhash read and the answer of the relay.  An answer it needs and was
\* not given leaves it where it waits.
RECURSIVE RunAlone(_, _, _, _, _, _)
RunAlone(f, service, initialised, balance, blockhash, sent) ==
    LET Go(g) == RunAlone(g, service, initialised, balance, blockhash, sent)
    IN  CASE Ended(f) -> f
          [] f.pc = "process" -> Go(ArmStep(f))
          [] f.pc = "await_balance" ->
               IF IsSome(balance) THEN Go(BalanceStep(f, balance[1])) ELSE f
          [] f.pc = "dispatch" -> Go(SelectStep(f, service, initialised))
          [] f.pc = "get_slot" ->
               IF IsSome(blockhash) THEN Go(SlotStep(f, blockhash[1])) ELSE f
          [] f.pc = "await_send" ->
               IF IsSome(sent) THEN Go(SendStep(f, sent[1])) ELSE f
          [] OTHER -> Go(DispatchStep(f))

\* ------------------------------------------------- vocabulary of the claims

\* The calls of the trace to the function op.
CallsOf(op) == {i \in 1..Len(trace) : trace[i].op = op}

Called(op) == CallsOf(op) # {}

\* The steps of a dispatch, in the order of the dispatcher's state machine.
DispatchOrder ==
    <<"select", "add_tip_ix", "get_slot", "build_and_sign", "send_transaction", "report">>

DispatchOps == {DispatchOrder[i] : i \in 1..Len(DispatchOrder)}

IsDispatchCall(call) == call.op \in DispatchOps

\* The dispatch steps this invocation made, in order.
DispatchCalls == SelectSeq(trace, IsDispatchCall)

\* Nothing of a dispatch happened: no relay selected, no tip injected, no
\* blockhash read, nothing signed, nothing sent, nothing reported.
NothingDispatched ==
    /\ DispatchCalls = <<>>
    /\ relay = None
    /\ ixs = <<>>
    /\ recent_blockhash = None
    /\ encoded_tx = None
    /\ send_response = None
    /\ results = None

\* No instruction was built: neither the quote functions nor the builders
\* were called.
NothingBuilt ==
    /\ raw_instructions = <<>>
    /\ quoted = None
    /\ \A op \in {"sol_token_quote", "token_sol_quote", "get_create_idempotent_ata_ix",
                  "get_buy_ix", "get_sell_ix", "get_close_ata_ix"} : ~Called(op)

\* process() has gone past the scan of the inner instructions.
Scanned == pc \notin {"idle", "process"}

IsTrade == instruction.kind \in {"Buy", "Sell"}

\* The account list of the instruction fills a bundle.
Arrangeable == Len(instruction.accounts) >= 12

\* The event-authority account of the observed instruction: the 11th account
\* of a Buy and of a Sell.
ObservedEventAuthority == instruction.accounts[11]

\* The inner instructions of the first inner-instruction group of the
\* transaction, none when it has no group.
FirstGroupInstructions ==
    IF inner_instructions = None THEN <<>>
    ELSE IF inner_instructions[1] = <<>> THEN <<>>
    ELSE inner_instructions[1][1].instructions

\* An inner instruction of the target program whose first referenced account
\* is the event authority, both resolved through the key table.
IsEventIx(inner_ix) ==
    /\ inner_ix.program_id_index < Len(static_account_keys)
    /\ static_account_keys[inner_ix.program_id_index + 1] = PUMPFUN_PROGRAM_ID
    /\ Len(inner_ix.accounts) > 0
    /\ inner_ix.accounts[1] < Len(static_account_keys)
    /\ static_account_keys[inner_ix.accounts[1] + 1] = ObservedEventAuthority

\* The positions of the event instructions in the first group.
EventIxPositions ==
    {i \in 1..Len(FirstGroupInstructions) : IsEventIx(FirstGroupInstructions[i])}

\* The first of them.
FirstEventIx ==
    FirstGroupInstructions[CHOOSE i \in EventIxPositions :
                               \A j \in EventIxPositions : i <= j]

\* Whether data holds the discriminator, the 8-byte header and exactly one
\* well-formed event.
IsWellFormedEvent(data) ==
    /\ Len(data) = 16 + TradeEventSize
    /\ SubSeq(data, 1, 8) = EVENT_DISCRIMINATOR
    /\ data[17] \in {0, 1}

HasDiscriminator(data) == Len(data) >= 8 /\ SubSeq(data, 1, 8) = EVENT_DISCRIMINATOR

\* The balance strings of the model that are no unsigned 64-bit integer: the
\* empty string, a negative number, letters, a decimal fraction, 2^64.
UnparsableBalances ==
    {<<>>, <<"-", "1">>, <<"a", "b">>, <<"1", ".", "5">>,
     <<"1", "8", "4", "4", "6", "7", "4", "4", "0", "7",
       "3", "7", "0", "9", "5", "5", "1", "6", "1", "6">>}

\* ------------------------------------------------------------------ claims

\* C1: on the sell path, when a trade event was extracted and the balance
\* query answers "0", process() ends with Ok without a call of
\* token_sol_quote, get_sell_ix or get_close_ata_ix and without any dispatch.
\* The code parses "0" as the amount 0 and goes on to quote, build and
\* dispatch: this statement of the claim is violated.
C1_ZeroBalanceTerminates ==
    (/\ instruction.kind = "Sell"
     /\ IsSome(trade_event)
     /\ IsSome(balance_response)
     /\ balance_response[1].ok
     /\ balance_response[1].amount = <<"0">>)
    => /\ pc = "returned"
       /\ ret = "Ok"
       /\ ~Called("token_sol_quote")
       /\ ~Called("get_sell_ix")
       /\ ~Called("get_close_ata_ix")
       /\ raw_instructions = <<>>
       /\ NothingDispatched

\* C2: when the first event instruction of the scanned group carries the
\* discriminator but no well-formed event behind it (a payload under 16 bytes
\* included), process() returns an error value: it does not panic, and
\* nothing is built or dispatched.  The code panics (the slice, or expect):
\* this statement of the claim is violated.
C2_MalformedEventReturnsError ==
    (/\ IsTrade
     /\ Arrangeable
     /\ Scanned
     /\ EventIxPositions # {}
     /\ HasDiscriminator(FirstEventIx.data)
     /\ ~IsWellFormedEvent(FirstEventIx.data))
    => /\ pc = "returned"
       /\ ret = "Err"
       /\ NothingBuilt
       /\ NothingDispatched

\* C3: whenever a non-empty instruction list reaches the dispatch and the
\* configured relay name is none of NOZOMI, ZERO_SLOT, JITO, no relay is
\* selected, no tip injected, no blockhash read, nothing signed and nothing
\* sent; the reported result is the failure "unknown confirmation service"
\* and process() returns Ok.
C3_UnknownServiceFails ==
    (CONFIRM_SERVICE \notin {"NOZOMI", "ZERO_SLOT", "JITO"} /\ raw_instructions # <<>>)
    => /\ pc \in {"dispatch", "returned"}
       /\ relay = None
       /\ ixs = <<>>
       /\ recent_blockhash = None
       /\ encoded_tx = None
       /\ send_response = None
       /\ \A op \in DispatchOps \ {"report"} : ~Called(op)
       /\ pc = "dispatch" => results = None /\ DispatchCalls = <<>>
       /\ pc = "returned" =>
            /\ ret = "Ok"
            /\ results = Some([result  |-> "error",
                               message |-> Some("unknown confirmation service")])
            /\ DispatchCalls = <<Call("report")>>

\* C3's case: instructions were built, the relay name is FOO, and process()
\* has returned after reporting.
C3_Witness ==
    /\ pc = "returned"
    /\ CONFIRM_SERVICE = "FOO"
    /\ raw_instructions # <<>>
    /\ Called("report")

\* C4: for a Buy or Sell whose scanned group holds no inner instruction of
\* the target program with the event authority as first account (also when
\* the transaction has no inner-instruction group), no instruction is built,
\* no dispatch step is made and process() returns Ok.
C4_NoEventNoDispatch ==
    (IsTrade /\ Arrangeable /\ Scanned /\ EventIxPositions = {})
    => /\ pc = "returned"
       /\ ret = "Ok"
       /\ trace = <<>>
       /\ NothingBuilt
       /\ NothingDispatched

\* C4's case: process() has returned for a trade whose scanned group holds an
\* inner instruction of the target program that carries a well-formed event,
\* but no event instruction.
C4_Witness ==
    /\ pc = "returned"
    /\ IsTrade
    /\ Arrangeable
    /\ EventIxPositions = {}
    /\ \E i \in 1..Len(FirstGroupInstructions) :
          /\ FirstGroupInstructions[i].program_id_index = 11
          /\ FirstGroupInstructions[i].accounts # <<>>
          /\ IsWellFormedEvent(FirstGroupInstructions[i].data)

\* C5: only the first event instruction is examined: when its payload does
\* not begin with the discriminator, nothing is built, nothing is dispatched
\* and process() returns Ok without error, even when a later event
\* instruction of the group carries a well-formed event.
C5_OnlyFirstEventIxExamined ==
    (/\ IsTrade
     /\ Arrangeable
     /\ Scanned
     /\ EventIxPositions # {}
     /\ ~HasDiscriminator(FirstEventIx.data))
    => /\ pc \in {"dispatch", "returned"}
       /\ pc = "returned" => ret = "Ok"
       /\ trade_event = None
       /\ trace = <<>>
       /\ NothingBuilt
       /\ NothingDispatched

\* C5's case: process() has returned, the first event instruction carries
\* another discriminator and a later one carries a well-formed event.
C5_Witness ==
    /\ pc = "returned"
    /\ IsTrade
    /\ Arrangeable
    /\ EventIxPositions # {}
    /\ ~HasDiscriminator(FirstEventIx.data)
    /\ \E j \in EventIxPositions : IsWellFormedEvent(FirstGroupInstructions[j].data)

\* C6: for a decoded instruction that is neither a Buy nor a Sell, process()
\* builds nothing, queries no balance, makes no dispatch step and returns Ok.
C6_OtherKindsIgnored ==
    (instruction.kind \notin {"Buy", "Sell", "none"})
    => /\ pc \in {"process", "dispatch", "returned"}
       /\ pc = "returned" => ret = "Ok"
       /\ arranged = None
       /\ balance_response = None
       /\ trace = <<>>
       /\ NothingBuilt
       /\ NothingDispatched

\* C6's case: process() has returned for an instruction of another kind whose
\* transaction holds an event instruction with a well-formed event.
C6_Witness ==
    /\ pc = "returned"
    /\ instruction.kind = "Create"
    /\ EventIxPositions # {}
    /\ IsWellFormedEvent(FirstEventIx.data)

\* C7: in every dispatch the calls happen in the order select, add_tip_ix,
\* get_slot, build_and_sign, send_transaction, report: the calls made so far
\* are an initial part of that order, each step's product exists exactly when
\* the step was made, the signed transaction holds the tipped instructions
\* and the blockhash read, and a dispatch that selected a relay and returned
\* has made every step and reported exactly one result.
C7_DispatchStepsInOrder ==
    /\ Len(DispatchCalls) <= Len(DispatchOrder)
    /\ relay # None =>
         /\ Len(DispatchCalls) >= 1
         /\ \A i \in 1..Len(DispatchCalls) : DispatchCalls[i].op = DispatchOrder[i]
    /\ relay = None => DispatchCalls \in {<<>>, <<Call("report")>>}
    /\ Called("select") <=> relay # None
    /\ Called("add_tip_ix") <=> ixs # <<>>
    /\ Called("get_slot") <=> recent_blockhash # None
    /\ Called("build_and_sign") <=> encoded_tx # None
    /\ Called("send_transaction") =>
         /\ ixs # <<>>
         /\ recent_blockhash # None
         /\ encoded_tx # None
         /\ encoded_tx[1] = build_and_sign(ixs, recent_blockhash[1])
    /\ send_response # None => Called("send_transaction")
    /\ Called("report") <=> results # None
    /\ Cardinality(CallsOf("report")) <= 1
    /\ (pc = "returned" /\ relay # None) =>
         /\ Len(DispatchCalls) = Len(DispatchOrder)
         /\ results = Some(SendResult(send_response[1]))

\* C7's case: a dispatch on a selected relay has submitted the transaction,
\* reported a success and returned.
C7_Witness ==
    /\ pc = "returned"
    /\ relay # None
    /\ Called("send_transaction")
    /\ send_response # None
    /\ send_response[1].ok
    /\ results # None

\* C8: every dispatch is one-shot: at most one send_transaction is made in
\* one invocation, every relay call is made on the relay whose name is the
\* configured one, and once the submission has answered (a failure included)
\* process() has returned: no second submission follows.
C8_DispatchIsOneShot ==
    /\ Cardinality(CallsOf("send_transaction")) <= 1
    /\ \A i \in CallsOf("send_transaction") \cup CallsOf("add_tip_ix") :
          trace[i].on = CONFIRM_SERVICE
    /\ relay # None => relay[1] = CONFIRM_SERVICE
    /\ send_response # None =>
         /\ pc = "returned"
         /\ Cardinality(CallsOf("send_transaction")) = 1

\* C8's case: the only submission of the invocation failed and process() has
\* returned, on a configuration where other relays are initialised too.
C8_Witness ==
    /\ pc = "returned"
    /\ send_response # None
    /\ ~send_response[1].ok
    /\ Cardinality(CallsOf("send_transaction")) = 1
    /\ Cardinality(clients) > 1

\* C9: on the sell path, when the balance query fails or its string is not an
\* unsigned 64-bit integer, process() returns Ok at once: no amount, no
\* quote, no instruction, no dispatch step, no panic.
C9_BadBalanceAborts ==
    (/\ IsSome(balance_response)
     /\ \/ ~balance_response[1].ok
        \/ balance_response[1].amount \in UnparsableBalances)
    => /\ pc = "returned"
       /\ ret = "Ok"
       /\ token_amount = None
       /\ quoted = None
       /\ ~Called("token_sol_quote")
       /\ NothingBuilt
       /\ NothingDispatched

\* C9's case: the balance query answered with a string that is no u64 and
\* process() has returned.
C9_Witness ==
    /\ pc = "returned"
    /\ instruction.kind = "Sell"
    /\ IsSome(trade_event)
    /\ IsSome(balance_response)
    /\ balance_response[1].ok
    /\ balance_response[1].amount \in UnparsableBalances

\* C10: when send_transaction answers with an error, the result reported is
\* the failure carrying that error's message, the report is the last call
\* made, and process() returns Ok: neither an error nor a panic.
C10_SendErrorIsReported ==
    (IsSome(send_response) /\ ~send_response[1].ok)
    => /\ pc = "returned"
       /\ ret = "Ok"
       /\ results = Some([result  |-> "error",
                          message |-> Some(send_response[1].data)])
       /\ trace # <<>>
       /\ trace[Len(trace)] = Call("report")

\* C10's case: the relay answered the submission with the error
\* "relay timeout" and the failure was reported.
C10_Witness ==
    /\ IsSome(send_response)
    /\ send_response[1] = [ok |-> FALSE, data |-> "relay timeout"]
    /\ IsSome(results)
    /\ Called("report")

\* C11: when the configured relay name is one of the three known names and
\* that relay's client was never initialised, the dispatch of a non-empty
\* instruction list ends with a reported failure result carrying a message,
\* process() returns, no relay is selected and nothing is submitted.  The
\* code takes the client with expect and panics: this statement of the claim
\* is violated.
C11_UnconfiguredClientFails ==
    (/\ raw_instructions # <<>>
     /\ CONFIRM_SERVICE \in {"NOZOMI", "ZERO_SLOT", "JITO"}
     /\ CONFIRM_SERVICE \notin clients
     /\ pc # "dispatch")
    => /\ pc = "returned"
       /\ ret = "Ok"
       /\ IsSome(results)
       /\ results[1].result = "error"
       /\ IsSome(results[1].message)
       /\ relay = None
       /\ ~Called("send_transaction")

\* The accounts of a built instruction, by position.
PubkeyAt(ix, i) == ix.accounts[i].pubkey

\* C14: in every instruction built, the user (and the payer and the owner of
\* the create instruction, the owner and destination of the close
\* instruction) is the controller's wallet and the associated user is the
\* address derived from the controller's wallet and the arranged mint; the
\* observed wallet and its associated account appear in no built instruction.
C14_BuiltForOwnWallet ==
    /\ IsSome(arranged) =>
         /\ arranged[1].user = "me"
         /\ arranged[1].associated_user = "ata(me,mintA)"
         /\ arranged[1].mint = instruction.accounts[3]
    /\ \A i \in 1..Len(raw_instructions) :
         LET ix == raw_instructions[i]
         IN  /\ \A j \in 1..Len(ix.accounts) :
                   ix.accounts[j].pubkey \notin {"target", "ata(target,mintA)"}
             /\ ix.kind \in {"buy", "sell"} =>
                   /\ PubkeyAt(ix, 7) = "me"
                   /\ ix.accounts[7].is_signer
                   /\ PubkeyAt(ix, 6) = "ata(me,mintA)"
                   /\ PubkeyAt(ix, 3) = "mintA"
             /\ ix.kind = "create_ata_idempotent" =>
                   /\ PubkeyAt(ix, 1) = "me"
                   /\ PubkeyAt(ix, 2) = "ata(me,mintA)"
                   /\ PubkeyAt(ix, 3) = "me"
                   /\ PubkeyAt(ix, 4) = "mintA"
             /\ ix.kind = "close_account" =>
                   /\ PubkeyAt(ix, 1) = "ata(me,mintA)"
                   /\ PubkeyAt(ix, 2) = "me"
                   /\ PubkeyAt(ix, 3) = "me"

\* C14's case: instructions were built for an observed instruction whose
\* user is the observed wallet and whose associated user is that wallet's.
C14_Witness ==
    /\ Len(raw_instructions) = 2
    /\ instruction.accounts[7] = "target"
    /\ instruction.accounts[6] = "ata(target,mintA)"
    /\ raw_instructions[1].kind = "create_ata_idempotent"

\* The field min_sol_output of a built sell instruction: the 8 bytes after
\* the discriminator and the amount.
MinSolOutputOf(ix) == FromLeBytes(SubSeq(ix.data, 17, 24))

\* C15: the min_sol_output of the built sell instruction is the sell quote of
\* the queried balance against the event's reserves with the slippage
\* tolerance taken off.  The code passes the configured buy amount with the
\* slippage instead and drops the quote: this statement of the claim is
\* violated, here for the positive balances.
C15_MinSolOutputIsQuote ==
    \A i \in 1..Len(raw_instructions) :
        (raw_instructions[i].kind = "sell" /\ token_amount[1] > 0) =>
            MinSolOutputOf(raw_instructions[i])
                = (quoted[1] * (100 - SLIPPAGE_PERCENT)) \div 100

\* The instructions of a tipped list that the caller handed in.
IsCallerIx(ix) ==
    ix.kind \notin {"set_compute_unit_limit", "set_compute_unit_price", "tip"}

\* C20: the list handed to the dispatch is the create instruction followed by
\* the buy instruction on the buy path, the sell instruction followed by the
\* close instruction on the sell path, and no other list; the tipped list
\* holds exactly this list, in this order.
C20_HandedOffList ==
    /\ raw_instructions # <<>> =>
         /\ Len(raw_instructions) = 2
         /\ instruction.kind \in {"Buy", "Sell"}
         /\ instruction.kind = "Buy" =>
              /\ raw_instructions[1].kind = "create_ata_idempotent"
              /\ raw_instructions[2].kind = "buy"
         /\ instruction.kind = "Sell" =>
              /\ raw_instructions[1].kind = "sell"
              /\ raw_instructions[2].kind = "close_account"
    /\ ixs # <<>> =>
         /\ raw_instructions # <<>>
         /\ SelectSeq(ixs, IsCallerIx) = raw_instructions

\* C20's case: the list of the buy path was handed to a relay's tip injection.
C20_Witness ==
    /\ instruction.kind = "Buy"
    /\ Len(raw_instructions) = 2
    /\ Called("add_tip_ix")
    /\ ixs # <<>>

\* The inner instructions of the group that belongs to the instruction being
\* processed (the group whose index is the instruction's index among the
\* top-level instructions), none when the transaction has no such group.
RECURSIVE GroupOfIndex(_, _)
GroupOfIndex(groups, index) ==
    IF groups = <<>> THEN <<>>
    ELSE IF groups[1].index = index THEN groups[1].instructions
    ELSE GroupOfIndex(Tail(groups), index)

OwnGroupInstructions ==
    IF inner_instructions = None THEN <<>>
    ELSE GroupOfIndex(inner_instructions[1], instruction.index)

\* The event instructions of that group, in order.
OwnEventIxs == SelectSeq(OwnGroupInstructions, IsEventIx)

\* C16: the group scanned for the trade event is the group of the instruction
\* being processed: an event is extracted exactly when the first event
\* instruction of that group carries a well-formed event.  The code scans
\* the first group of the transaction, whichever instruction it belongs to:
\* this statement of the claim is violated.
C16_ScansOwnGroup ==
    (IsTrade /\ Arrangeable /\ Scanned)
    => (IsSome(trade_event)
          <=> /\ OwnEventIxs # <<>>
              /\ IsWellFormedEvent(OwnEventIxs[1].data))

\* The call of get_buy_ix alone has returned.
BuyIxReturned ==
    /\ IsSome(single_call)
    /\ single_call[1].fn = "get_buy_ix"
    /\ IsSome(single_call[1].result)

\* The unsigned integer that 8 bytes encode, least significant byte first,
\* when it is below 2^31.
LeValue(b) ==
    IF b[5] = 0 /\ b[6] = 0 /\ b[7] = 0 /\ b[8] = 0 /\ b[4] < 128
    THEN b[1] + 256 * b[2] + 65536 * b[3] + 16777216 * b[4]
    ELSE -1

\* C12: the data of the instruction get_buy_ix returns is the 8 bytes
\* 102, 6, 61, 18, 1, 218, 235, 234, then the amount in 8 bytes least
\* significant first, then max_sol_cost in 8 bytes least significant first,
\* 24 bytes in all; its program id is the bundle's program.
C12_BuyIxData ==
    BuyIxReturned =>
        LET ix    == single_call[1].result[1]
            param == single_call[1].args.buy_exact_in_param
        IN  /\ Len(ix.data) = 24
            /\ \A i \in 1..24 : ix.data[i] \in 0..255
            /\ SubSeq(ix.data, 1, 8) = <<102, 6, 61, 18, 1, 218, 235, 234>>
            /\ LeValue(SubSeq(ix.data, 9, 16)) = param.amount
            /\ LeValue(SubSeq(ix.data, 17, 24)) = param.max_sol_cost
            /\ ix.program_id = single_call[1].args.self.program

\* C12's case: get_buy_ix has returned for an amount of more than one byte
\* and a max_sol_cost of another number of bytes.
C12_Witness ==
    /\ BuyIxReturned
    /\ single_call[1].args.buy_exact_in_param.amount = 65536
    /\ single_call[1].args.buy_exact_in_param.max_sol_cost = 255

\* C13: the account list of the instruction get_buy_ix returns has the 12
\* accounts of the bundle in the order global, fee recipient, mint, bonding
\* curve, associated bonding curve, associated user, user, system program,
\* token program, creator vault, event authority, program; global, the two
\* programs after the user, the event authority and the program are
\* read-only, the others writable, and the user is the only signer.
C13_BuyIxAccounts ==
    BuyIxReturned =>
        LET accounts == single_call[1].result[1].accounts
            self     == single_call[1].args.self
        IN  /\ Len(accounts) = 12
            /\ [i \in 1..12 |-> accounts[i].pubkey]
                 = <<self.global, self.fee_recipient, self.mint, self.bonding_curve,
                     self.associated_bonding_curve, self.associated_user, self.user,
                     self.system_program, self.token_program, self.creator_vault,
                     self.event_authority, self.program>>
            /\ {i \in 1..12 : accounts[i].is_writable} = {2, 3, 4, 5, 6, 7, 10}
            /\ {i \in 1..12 : accounts[i].is_signer} = {7}

\* C13's case: get_buy_ix has returned for a bundle whose twelve accounts are
\* all different.
C13_Witness ==
    /\ BuyIxReturned
    /\ single_call[1].args.self.creator_vault = "creator_vault"
    /\ single_call[1].args.self.token_program = "token_program"
    /\ Len(single_call[1].result[1].accounts) = 12

\* The call of a quote alone has returned.
QuoteReturned ==
    /\ IsSome(single_call)
    /\ single_call[1].fn \in {"sol_token_quote", "token_sol_quote"}
    /\ IsSome(single_call[1].result)

\* The reserves of the call are those of a pool that is not degenerate.
PositiveReserves ==
    /\ single_call[1].args.virtual_sol_reserves \in Reserves
    /\ single_call[1].args.virtual_token_reserves \in Reserves

\* C18: for reserves that are not degenerate and a fixed direction, each of
\* the two quotes is non-decreasing in the amount: the quote of every larger
\* amount is at least the quote returned.  The sell direction of
\* sol_token_quote and the buy direction of token_sol_quote are not: this
\* statement of the claim is violated.
C18_QuoteMonotone ==
    (QuoteReturned /\ PositiveReserves) =>
        \A b \in QuoteAmounts :
            b >= single_call[1].args.amount =>
                QuoteOf(single_call[1].fn, [single_call[1].args EXCEPT !.amount = b])
                    >= single_call[1].result[1]

\* C19: quoting a buy and then the sell of the tokens obtained, against the
\* same reserves, yields less than the amount the buy began with.  For the
\* amount 0 the round trip yields 0, which is not less: this statement of the
\* claim is violated.
C19_RoundTripLoses ==
    (/\ IsSome(single_call)
     /\ single_call[1].fn = "token_sol_quote"
     /\ IsSome(single_call[1].after)
     /\ IsSome(single_call[1].result)
     /\ PositiveReserves)
    => single_call[1].result[1] < single_call[1].after[1]

\* What invocation i would end with when run alone on its input with the
\* answers it has got.
AloneOf(i) ==
    RunAlone(NewFrame(frames[i].instruction, frames[i].inner_instructions),
             CONFIRM_SERVICE, clients, frames[i].balance_response,
             frames[i].recent_blockhash, frames[i].send_response)

\* Every invocation that has ended builds the list, makes the dispatch and
\* ends as it would alone.
EndsAsAlone == \A i \in Invocations : Ended(frames[i]) => frames[i] = AloneOf(i)

\* A step writes the locals of at most one invocation, and a step that
\* writes locals leaves the configuration and the blockhash cell alone.
WritesOwnLocals ==
    /\ Cardinality({i \in Invocations : frames'[i] # frames[i]}) <= 1
    /\ frames' # frames => UNCHANGED <<CONFIRM_SERVICE, clients, latest_blockhash>>

\* C17: however the concurrent invocations interleave, each one that has
\* ended has built the instruction list and made the dispatch it would have
\* alone with the same input and the same answers from outside, and no step
\* of an invocation writes what another invocation reads.
C17_InvocationsIndependent == []EndsAsAlone /\ [][WritesOwnLocals]_vars

\* C17's case: two invocations, a Buy and a Sell, have both dispatched and
\* ended, and the blockhash cell was refreshed between their reads.
C17_Witness ==
    /\ frames[1].instruction.kind = "Buy"
    /\ frames[2].instruction.kind = "Sell"
    /\ frames[1].pc = "returned"
    /\ frames[2].pc = "returned"
    /\ IsSome(frames[1].results)
    /\ IsSome(frames[2].results)
    /\ frames[1].recent_blockhash # frames[2].recent_blockhash

\* The denominator of the formula that the direction of a quote selects.
Denominator(fn, args) ==
    IF fn = "sol_token_quote"
    THEN IF args.is_buy
         THEN args.amount + args.virtual_sol_reserves
         ELSE args.amount + args.virtual_sol_reserves - 1
    ELSE IF args.is_buy
         THEN args.virtual_token_reserves - args.amount
         ELSE args.virtual_token_reserves + args.amount

\* C21: a quote whose selected formula has a zero or negative denominator
\* does not return an ordinary quote value: the function returns a u64 and
\* cannot fail, so it returns the saturated value u64::MAX.  The functions
\* have no guard and return the cast of the unguarded division, which is 0
\* for a negative denominator and for 0/0 and inf*0: this statement of the
\* claim is violated.
C21_DegenerateDenominatorGuarded ==
    (QuoteReturned /\ Denominator(single_call[1].fn, single_call[1].args) <= 0)
    => single_call[1].result[1] = U64_MAX

\* An inner instruction that the scan cannot resolve: its program-id index or
\* its first account index is outside the static account-key table, or it
\* references no accounts.
IsUnresolvable(inner_ix) ==
    \/ inner_ix.program_id_index >= Len(static_account_keys)
    \/ inner_ix.accounts = <<>>
    \/ inner_ix.accounts[1] >= Len(static_account_keys)

\* The positions of the unresolvable inner instructions in the first group.
UnresolvablePositions ==
    {i \in 1..Len(FirstGroupInstructions) : IsUnresolvable(FirstGroupInstructions[i])}

\* C22: an unresolvable inner instruction in the scanned group of a Buy or
\* Sell is skipped and the scan goes on with the others.  When none of the
\* others is an event instruction process() returns Ok; when the first event
\* instruction carries a well-formed event, that event is decoded, also when
\* it stands after the unresolvable one; when it carries another
\* discriminator nothing is decoded and process() does not fail; and
\* process() panics only on an event instruction with a malformed event or in
\* the dispatch of the built instructions, never in the scan.
C22_UnresolvableIxSkipped ==
    (IsTrade /\ Arrangeable /\ Scanned /\ UnresolvablePositions # {})
    => /\ EventIxPositions = {} => (pc = "returned" /\ ret = "Ok")
       /\ (EventIxPositions # {} /\ IsWellFormedEvent(FirstEventIx.data))
              => /\ IsSome(trade_event)
                 /\ EncodeTradeEvent(trade_event[1])
                        = SubSeq(FirstEventIx.data, 17, Len(FirstEventIx.data))
       /\ (EventIxPositions # {} /\ ~HasDiscriminator(FirstEventIx.data))
              => (trade_event = None /\ ret # "panic")
       /\ ret = "panic"
              => /\ EventIxPositions # {}
                 /\ \/ (HasDiscriminator(FirstEventIx.data)
                          /\ ~IsWellFormedEvent(FirstEventIx.data))
                    \/ raw_instructions # <<>>

\* C22's case: the first group of a trade holds an unresolvable inner
\* instruction followed by an event instruction with a well-formed event,
\* and the scan has decoded that event.
C22_Witness ==
    /\ IsTrade
    /\ Arrangeable
    /\ Scanned
    /\ IsSome(trade_event)
    /\ \E i \in UnresolvablePositions, j \in EventIxPositions :
          /\ i < j
          /\ FirstGroupInstructions[i].program_id_index >= Len(static_account_keys)
          /\ IsWellFormedEvent(FirstGroupInstructions[j].data)

============================================================================
